---- MODULE Spec2Model ----
(***************************************************************************)
(* Model of the gravity / landing / trajectory-prediction core of the      *)
(* solar-system game (src/src/main.rs, src/src/movable.rs).                *)
(*                                                                         *)
(* Numbers.  The program computes with f32.  Here every length, speed and  *)
(* mass is an integer, a real-valued result is truncated towards zero, and *)
(* a value the program would hold as NaN is kept as NaN (a Vec2 has a flag *)
(* for it; every comparison with a NaN is false, as in IEEE 754).          *)
(* Angles are whole degrees and stay multiples of 90: one turn_left or     *)
(* turn_right step is SHIP_ROT_SPEED * dt degrees with dt a whole number   *)
(* of time units, and a landing is explored only when the surface normal   *)
(* it snaps the rotation to is a multiple of 90 degrees (LandExact).       *)
(* Time is counted in whole units; PHYSICS_STEP is one unit.               *)
(*                                                                         *)
(* References.  The Rc<RefCell<CelestialBody>> handles are indices into    *)
(* the sequence bodies (all_celestial_bodies, in its order).               *)
(***************************************************************************)
EXTENDS Integers, Sequences, FiniteSets, TLC

VARIABLES
  bodies,   \* all_celestial_bodies: Seq of CelestialBody
  ships,    \* ships: Seq of Ship (ships[1] is the player's ship)
  pc,       \* position in the body of main's loop
  ticks,    \* live ticks run so far (bounds the exploration)
  last,     \* what the last operation was and how it went (history)
  m,        \* a stand-alone Movable (checkpoint / restore harness)
  msaved,   \* its pos, vel, rot and mass when save() was last called
  mlog,     \* load() calls since then, and the last operation on m
  timer,    \* a stand-alone Timer
  tlog,     \* the update() calls made on it (history)
  slog      \* save() and load() calls made on the ship on its own (history)

vars == <<bodies, ships, pc, ticks, last, m, msaved, mlog, timer, tlog, slog>>

-----------------------------------------------------------------------------
(* Program constants (src/src/main.rs lines 20-31) *)

G == 50
SHIP_SIZE == 10
SHIP_ACCELERATION == 10
SHIP_ROT_SPEED == 90
PHYSICS_STEP == 1
MAJOR_CB_HILL_RADIUS_COEFICIENT == 3
TERMINAL_VELOCITY == 30

(* Bounds of the exploration *)

MaxPos == 30        \* live positions stay within -MaxPos..MaxPos
MaxTicks == 2       \* live ticks per behaviour
MaxTurns == 4       \* |rot| <= MaxTurns * 90 degrees
MaxIter == 2        \* iterations of a rollout: 0..MaxIter
MaxSimDt == 2       \* step of a rollout: 1..MaxSimDt
MaxThrottleDt == 1  \* step of a throttle_up call: 1..MaxThrottleDt
MaxTurnDt == 2      \* step of a turn_left / turn_right call: 1..MaxTurnDt
MaxMovPos == 2      \* stand-alone Movable: |pos.x| <= MaxMovPos
MaxMovVel == 1      \* stand-alone Movable: |vel.x| <= MaxMovVel
MaxMovRot == 1      \* stand-alone Movable: |rot| <= MaxMovRot * 90
MaxLoads == 2       \* stand-alone Movable: load() calls per save()
MaxSolverSteps == 2 \* solver on its own: calls per behaviour
MaxSolverDt == 1    \* solver on its own: step of a call, 1..MaxSolverDt
MaxThreshold == 3   \* stand-alone Timer: threshold in 1..MaxThreshold
MaxTimerDt == 4     \* stand-alone Timer: step of an update, 0..MaxTimerDt
MaxUpdates == 6     \* stand-alone Timer: update() calls per behaviour
MaxShipLoads == 2   \* ship checkpoint on its own: load() calls per save()
MaxShipSaves == 2   \* ship checkpoint on its own: save() calls per behaviour

-----------------------------------------------------------------------------
(* Arithmetic *)

Abs(a) == IF a < 0 THEN -a ELSE a

Sgn(a) == IF a < 0 THEN -1 ELSE IF a > 0 THEN 1 ELSE 0

Max(a, b) == IF a >= b THEN a ELSE b

\* Division truncating towards zero.
TDiv(a, b) == Sgn(a) * Sgn(b) * (Abs(a) \div Abs(b))

\* f32 remainder: the sign of the dividend (Rust's % on floats).
FRem(a, b) == Sgn(a) * (Abs(a) % b)

RECURSIVE RootSearch(_, _, _, _)
\* The largest r in lo..hi with r^k <= n (k = 2 or 3), by bisection.
RootSearch(n, k, lo, hi) ==
  IF lo >= hi THEN lo
  ELSE LET mid == (lo + hi + 1) \div 2
           p == IF k = 2 THEN mid * mid ELSE mid * mid * mid
       IN IF p <= n THEN RootSearch(n, k, mid, hi)
                    ELSE RootSearch(n, k, lo, mid - 1)

\* floor(sqrt(n)), n in 0..2^30
ISqrt(n) == RootSearch(n, 2, 0, IF n < 32768 THEN 181 ELSE 32767)

\* floor(cbrt(n)), n in 0..2^30
ICbrt(n) == RootSearch(n, 3, 0, IF n < 32768 THEN 31 ELSE 1023)

-----------------------------------------------------------------------------
(* Vec2 (glam), with NaN *)

vec2(x, y) == [nan |-> FALSE, x |-> x, y |-> y]

NaNVec == [nan |-> TRUE, x |-> 0, y |-> 0]

ZERO == vec2(0, 0)

VAdd(a, b) == IF a.nan \/ b.nan THEN NaNVec ELSE vec2(a.x + b.x, a.y + b.y)

VSub(a, b) == IF a.nan \/ b.nan THEN NaNVec ELSE vec2(a.x - b.x, a.y - b.y)

VScale(a, k) == IF a.nan THEN NaNVec ELSE vec2(a.x * k, a.y * k)

\* Only applied to a vector that is not NaN.
length_squared(a) == a.x * a.x + a.y * a.y

\* cos and sin of a multiple of 90 degrees.
CosDeg(d) == CASE d % 360 = 0 -> 1 [] d % 360 = 180 -> -1 [] OTHER -> 0

SinDeg(d) == CASE d % 360 = 90 -> 1 [] d % 360 = 270 -> -1 [] OTHER -> 0

rotate_vec2_by_rad(v, rad) ==
  IF v.nan THEN NaNVec
  ELSE LET c == CosDeg(rad)
           s == SinDeg(rad)
       IN vec2(c * v.x - s * v.y, s * v.x + c * v.y)

\* A radius is finite or f32::INFINITY.
Finite(r) == [inf |-> FALSE, r |-> r]

INFINITY == [inf |-> TRUE, r |-> 0]

point_in_circle(point, circle, radius) ==
  /\ ~point.nan
  /\ ~circle.nan
  /\ \/ radius.inf
     \/ length_squared(VSub(circle, point)) < radius.r * radius.r

-----------------------------------------------------------------------------
(* Movable (src/src/movable.rs) *)

Movable_new(pos, vel, mass, rot) ==
  [pos |-> pos, vel |-> vel, mass |-> mass, rot |-> rot,
   store |-> <<pos, vel, rot>>]

Movable_save(mv) == [mv EXCEPT !.store = <<mv.pos, mv.vel, mv.rot>>]

\* A load() that forgets the velocity.
Movable_load_keeps_vel(mv) ==
  [mv EXCEPT !.pos = mv.store[1], !.rot = mv.store[3]]

Movable_load(mv) ==
  [mv EXCEPT !.pos = mv.store[1], !.vel = mv.store[2], !.rot = mv.store[3]]

Movable_update(mv, dt) == [mv EXCEPT !.pos = VAdd(mv.pos, VScale(mv.vel, dt))]

-----------------------------------------------------------------------------
(* Timer (src/src/timer.rs) *)

Timer_new(threshold) ==
  [act |-> 0, threshold |-> threshold, just_over |-> FALSE, repeat |-> TRUE]

is_over(t) == t.act > t.threshold

is_just_over(t) == t.just_over

\* An update whose threshold test is >= instead of >.
Timer_update_inclusive(t, dt) ==
  IF is_over(t) /\ ~t.repeat THEN t
  ELSE LET updated_time == t.act + dt
           over_threshold == updated_time >= t.threshold
       IN [t EXCEPT
             !.just_over = IF t.just_over /\ ~over_threshold THEN FALSE
                           ELSE IF over_threshold /\ ~t.just_over THEN TRUE
                           ELSE t.just_over,
             !.act = IF over_threshold /\ t.repeat THEN 0 ELSE updated_time]

Timer_update(t, dt) ==
  IF is_over(t) /\ ~t.repeat THEN t
  ELSE LET updated_time == t.act + dt
           over_threshold == updated_time > t.threshold
       IN [t EXCEPT
             !.just_over = IF t.just_over /\ ~over_threshold THEN FALSE
                           ELSE IF over_threshold /\ ~t.just_over THEN TRUE
                           ELSE t.just_over,
             !.act = IF over_threshold /\ t.repeat THEN 0 ELSE updated_time]

-----------------------------------------------------------------------------
(* Gravity solver *)

\* One component of force_vec * mass * G / distance_length * dt, where
\* force_vec = distance_vector / |distance_vector|: the real value
\* c * A / (d2 * sqrt(d2)), truncated.  It is 0 when d2 > A (|c| <= sqrt(d2)).
GravComponent(c, A, d2) ==
  IF d2 > A THEN 0
  ELSE LET n == Abs(c) * A
       IN Sgn(c) * ISqrt((((n * n) \div d2) \div d2) \div d2)

\* A gravity_vel that scales each delta by the body's own mass.
gravity_vel_own_mass(a_pos, a_mass, b_pos, b_mass, dt) ==
  LET distance_vector == VSub(a_pos, b_pos)
  IN IF distance_vector.nan \/ length_squared(distance_vector) = 0
     THEN <<NaNVec, NaNVec>>
     ELSE LET distance_length == length_squared(distance_vector)
              dx == distance_vector.x
              dy == distance_vector.y
          IN << vec2(-GravComponent(dx, a_mass * G * dt, distance_length),
                     -GravComponent(dy, a_mass * G * dt, distance_length)),
                vec2(GravComponent(dx, b_mass * G * dt, distance_length),
                     GravComponent(dy, b_mass * G * dt, distance_length)) >>

gravity_vel(a_pos, a_mass, b_pos, b_mass, dt) ==
  LET distance_vector == VSub(a_pos, b_pos)
  IN IF distance_vector.nan \/ length_squared(distance_vector) = 0
     THEN <<NaNVec, NaNVec>>   \* normalize() of a zero vector, then 0/0
     ELSE LET distance_length == length_squared(distance_vector)
              dx == distance_vector.x
              dy == distance_vector.y
          IN << vec2(-GravComponent(dx, b_mass * G * dt, distance_length),
                     -GravComponent(dy, b_mass * G * dt, distance_length)),
                vec2(GravComponent(dx, a_mass * G * dt, distance_length),
                     GravComponent(dy, a_mass * G * dt, distance_length)) >>

AddVel(bs, i, dv) == [bs EXCEPT ![i].mov.vel = VAdd(bs[i].mov.vel, dv)]

RECURSIVE apply_gravity_asteroids_both(_, _, _, _)
\* An asteroid loop that also gives the parent the asteroid's pull.
apply_gravity_asteroids_both(bs, asteroids, parent, dt) ==
  IF asteroids = << >> THEN bs
  ELSE LET a == Head(asteroids)
           gv == gravity_vel(bs[a].mov.pos, bs[a].mov.mass,
                             bs[parent].mov.pos, bs[parent].mov.mass, dt)
       IN apply_gravity_asteroids_both(AddVel(AddVel(bs, a, gv[1]), parent, gv[2]),
                                       Tail(asteroids), parent, dt)

RECURSIVE apply_gravity_asteroids(_, _, _, _)
\* asteroids: the indices still to process, in order.
apply_gravity_asteroids(bs, asteroids, parent, dt) ==
  IF asteroids = << >> THEN bs
  ELSE LET a == Head(asteroids)
           gv == gravity_vel(bs[a].mov.pos, bs[a].mov.mass,
                             bs[parent].mov.pos, bs[parent].mov.mass, dt)
       IN apply_gravity_asteroids(AddVel(bs, a, gv[1]), Tail(asteroids), parent, dt)

RECURSIVE GravityPairs_ordered(_, _, _, _, _)
\* A double loop whose inner index restarts at the first body, so that a
\* pair is visited in both orders.
GravityPairs_ordered(bs, cbs, i, j, dt) ==
  IF i > Len(cbs) THEN bs
  ELSE IF j > Len(cbs) THEN GravityPairs_ordered(bs, cbs, i + 1, 1, dt)
  ELSE IF i = j THEN GravityPairs_ordered(bs, cbs, i, j + 1, dt)
  ELSE LET a == cbs[i]
           b == cbs[j]
           gv == gravity_vel(bs[a].mov.pos, bs[a].mov.mass,
                             bs[b].mov.pos, bs[b].mov.mass, dt)
       IN GravityPairs_ordered(AddVel(AddVel(bs, a, gv[1]), b, gv[2]), cbs, i,
                               j + 1, dt)

RECURSIVE GravityPairs(_, _, _, _, _)
\* The double loop of apply_gravity_to_celestial_bodies from (i, j) on.
GravityPairs(bs, cbs, i, j, dt) ==
  IF i > Len(cbs) THEN bs
  ELSE IF j > Len(cbs) THEN GravityPairs(bs, cbs, i + 1, i + 2, dt)
  ELSE LET a == cbs[i]
           b == cbs[j]
           gv == gravity_vel(bs[a].mov.pos, bs[a].mov.mass,
                             bs[b].mov.pos, bs[b].mov.mass, dt)
       IN GravityPairs(AddVel(AddVel(bs, a, gv[1]), b, gv[2]), cbs, i, j + 1, dt)

apply_gravity_to_celestial_bodies(bs, celestial_bodies, dt) ==
  GravityPairs(bs, celestial_bodies, 1, 2, dt)

-----------------------------------------------------------------------------
(* CelestialBody *)

get_initial_position_and_velocity(parent_mass, distance, angle) ==
  LET delta_vector == rotate_vec2_by_rad(vec2(distance, 0), angle)
      speed == ISqrt((parent_mass * G) \div distance)
      perp == vec2(-delta_vector.y, delta_vector.x)
  IN <<delta_vector,
       vec2(TDiv(perp.x * speed, distance), TDiv(perp.y * speed, distance))>>

calculate_hill_radius(parent_pos, parent_mass, child_pos, child_mass) ==
  LET a == ISqrt(length_squared(VSub(child_pos, parent_pos)))
  IN ICbrt((a * a * a * child_mass) \div (3 * parent_mass))

CelestialBody_new(pos, mass, radius, cb_type, color) ==
  [mov |-> Movable_new(pos, ZERO, mass, 0), radius |-> radius,
   cb_type |-> cb_type, hill_radius |-> INFINITY, color |-> color]

from_parent(parent, distance, angle, mass, radius, cb_type, color) ==
  LET pv == get_initial_position_and_velocity(parent.mov.mass, distance, angle)
      mov == Movable_new(VAdd(parent.mov.pos, pv[1]), VAdd(parent.mov.vel, pv[2]),
                         mass, 0)
      hill_radius == calculate_hill_radius(parent.mov.pos, parent.mov.mass,
                                           VAdd(mov.pos, pv[1]), mov.mass)
  IN [mov |-> mov, radius |-> radius, cb_type |-> cb_type,
      hill_radius |-> Finite(hill_radius), color |-> color]

\* A scoping test that takes the bare hill radius for every type of body.
pos_in_hill_radius_bare(cb, pos) == point_in_circle(pos, cb.mov.pos, cb.hill_radius)

pos_in_hill_radius(cb, pos) ==
  LET hr == IF cb.cb_type = "Asteroid" THEN cb.hill_radius
            ELSE [cb.hill_radius EXCEPT
                    !.r = cb.hill_radius.r * MAJOR_CB_HILL_RADIUS_COEFICIENT]
  IN point_in_circle(pos, cb.mov.pos, hr)

-----------------------------------------------------------------------------
(* ShipState and Ship *)

InSpace == [tag |-> "InSpace", cb |-> 0, tv |-> ZERO]

Landed(cb, takeoff_vel) == [tag |-> "Landed", cb |-> cb, tv |-> takeoff_vel]

Destroyed == [tag |-> "Destroyed", cb |-> 0, tv |-> ZERO]

Ship_new(pos, vel, fuel) ==
  [mov |-> Movable_new(pos, vel, 1, 0), state |-> InSpace, store |-> InSpace,
   fuel |-> fuel, max_fuel |-> fuel, in_hill_radius_of |-> << >>]

Ship_save(s) == [s EXCEPT !.mov = Movable_save(s.mov), !.store = s.state]

\* A load() that restores the kinematics but not the flight state.
Ship_load_keeps_state(s) == [s EXCEPT !.mov = Movable_load(s.mov)]

\* replace(&mut self.store, InSpace) moves the stored state out of the slot.
Ship_load(s) ==
  [s EXCEPT !.state = s.store, !.store = InSpace, !.mov = Movable_load(s.mov)]

\* A throttle_up without the empty-tank return.
throttle_up_unguarded(s, dt) ==
  LET d == rotate_vec2_by_rad(vec2(1, 0), s.mov.rot)
      vel == vec2(TDiv(d.x * SHIP_ACCELERATION * dt, s.mov.mass),
                  TDiv(d.y * SHIP_ACCELERATION * dt, s.mov.mass))
      s1 == CASE s.state.tag = "InSpace" ->
                   [s EXCEPT !.mov.vel = VAdd(s.mov.vel, vel)]
              [] s.state.tag = "Landed" ->
                   [s EXCEPT !.state.tv = VAdd(s.state.tv, vel)]
              [] OTHER -> s
  IN [s1 EXCEPT !.fuel = s.fuel - Max(SHIP_ACCELERATION * dt, 0)]

\* A throttle_up that pushes a Landed ship like one in space.
throttle_up_pushes_landed(s, dt) ==
  IF s.fuel <= 0 THEN s
  ELSE LET d == rotate_vec2_by_rad(vec2(1, 0), s.mov.rot)
           vel == vec2(TDiv(d.x * SHIP_ACCELERATION * dt, s.mov.mass),
                       TDiv(d.y * SHIP_ACCELERATION * dt, s.mov.mass))
           s1 == CASE s.state.tag \in {"InSpace", "Landed"} ->
                        [s EXCEPT !.mov.vel = VAdd(s.mov.vel, vel)]
                   [] OTHER -> s
       IN [s1 EXCEPT !.fuel = s.fuel - Max(SHIP_ACCELERATION * dt, 0)]

throttle_up(s, dt) ==
  IF s.fuel <= 0 THEN s
  ELSE LET d == rotate_vec2_by_rad(vec2(1, 0), s.mov.rot)
           vel == vec2(TDiv(d.x * SHIP_ACCELERATION * dt, s.mov.mass),
                       TDiv(d.y * SHIP_ACCELERATION * dt, s.mov.mass))
           s1 == CASE s.state.tag = "InSpace" ->
                        [s EXCEPT !.mov.vel = VAdd(s.mov.vel, vel)]
                   [] s.state.tag = "Landed" ->
                        [s EXCEPT !.state.tv = VAdd(s.state.tv, vel)]
                   [] OTHER -> s
       IN [s1 EXCEPT !.fuel = s.fuel - Max(SHIP_ACCELERATION * dt, 0)]

turn_left(s, dt) == [s EXCEPT !.mov.rot = s.mov.rot - SHIP_ROT_SPEED * dt]

turn_right(s, dt) == [s EXCEPT !.mov.rot = s.mov.rot + SHIP_ROT_SPEED * dt]

\* d lies on a coordinate axis and is not the zero vector.
OnAxis(d) == ~d.nan /\ (d.x = 0) # (d.y = 0)

\* -(d.angle_between(vec2(1, 0))): the direction of d in degrees, in
\* (-180, 180]; exact when d is on an axis.
NormalDeg(d) ==
  CASE d.y = 0 /\ d.x > 0 -> 0
    [] d.x = 0 /\ d.y > 0 -> 90
    [] d.y = 0 /\ d.x < 0 -> 180
    [] d.x = 0 /\ d.y < 0 -> -90
    [] OTHER -> IF Abs(d.x) >= Abs(d.y) THEN (IF d.x > 0 THEN 0 ELSE 180)
                ELSE (IF d.y > 0 THEN 90 ELSE -90)

\* |r - theta| <= 30 degrees, where theta in (-180, 180] is the exact
\* direction of d # 0 and r is a multiple of 90 in (-360, 360):
\* tan(30 deg)^2 = 1/3, so |theta - r| <= 30 is 3 * across^2 <= along^2.
WithinThirty(r, d) ==
  CASE r = 0    -> d.x > 0 /\ 3 * d.y * d.y <= d.x * d.x
    [] r = 90   -> d.y > 0 /\ 3 * d.x * d.x <= d.y * d.y
    [] r = -90  -> d.y < 0 /\ 3 * d.x * d.x <= d.y * d.y
    [] r = 180  -> d.x < 0 /\ d.y >= 0 /\ 3 * d.y * d.y <= d.x * d.x
    [] r = -180 -> d.x < 0 /\ d.y < 0 /\ 3 * d.y * d.y <= d.x * d.x
    [] OTHER    -> FALSE

\* (self.mov.rot % 360_f32.to_radians() - rot).abs() > 30_f32.to_radians();
\* for d = 0 the angle is NaN and the comparison is false.
RotMisaligned(rot, d) ==
  /\ ~d.nan
  /\ length_squared(d) # 0
  /\ ~WithinThirty(FRem(rot, 360), d)

TooFast(vel, cb_vel) ==
  LET rel == VSub(vel, cb_vel)
  IN ~rel.nan /\ length_squared(rel) > TERMINAL_VELOCITY * TERMINAL_VELOCITY

\* A land that snaps the rotation before it decides.
land_snaps_first(s, bs, cb) ==
  LET d == VSub(s.mov.pos, bs[cb].mov.pos)
      rot == NormalDeg(d)
  IN IF RotMisaligned(s.mov.rot, d) \/ TooFast(s.mov.vel, bs[cb].mov.vel)
     THEN [s EXCEPT !.mov.rot = rot, !.state = Destroyed]
     ELSE [s EXCEPT !.mov.rot = rot, !.fuel = s.max_fuel,
                    !.state = Landed(cb, ZERO)]

land(s, bs, cb) ==
  LET d == VSub(s.mov.pos, bs[cb].mov.pos)
      rot == NormalDeg(d)
  IN IF RotMisaligned(s.mov.rot, d) \/ TooFast(s.mov.vel, bs[cb].mov.vel)
     THEN [s EXCEPT !.state = Destroyed]
     ELSE [s EXCEPT !.mov.rot = rot, !.fuel = s.max_fuel,
                    !.state = Landed(cb, ZERO)]

\* A takeoff that drops the accumulated takeoff velocity.
takeoff_drops_vel(s, takeoff_vel) == [s EXCEPT !.state = InSpace]

takeoff(s, takeoff_vel) ==
  [s EXCEPT !.state = InSpace, !.mov.vel = VAdd(s.mov.vel, takeoff_vel)]

check_collision(s, vel, cb, dt) ==
  LET m1 == [s.mov EXCEPT !.vel = VAdd(s.mov.vel, vel)]
      m2 == Movable_update(m1, dt)
  IN point_in_circle(m2.pos, cb.mov.pos, Finite(cb.radius + SHIP_SIZE \div 2))

RECURSIVE CollideEach(_, _, _, _)
\* The loop of the InSpace arm of process_collision over the bodies cbs.
CollideEach(s, bs, cbs, dt) ==
  IF cbs = << >> THEN s
  ELSE LET cb == Head(cbs)
           s1 == IF check_collision(s, ZERO, bs[cb], dt) THEN land(s, bs, cb)
                 ELSE s
       IN CollideEach(s1, bs, Tail(cbs), dt)

process_collision(s, bs, celestial_bodies, dt) ==
  CASE s.state.tag = "InSpace" -> CollideEach(s, bs, celestial_bodies, dt)
    [] s.state.tag = "Landed" ->
         IF ~check_collision(s, s.state.tv, bs[s.state.cb], dt)
         THEN takeoff(s, s.state.tv)
         ELSE s
    [] OTHER -> s

RECURSIVE GravityEach(_, _, _, _)
\* The loop of the InSpace | Destroyed arm of apply_gravity; the result is
\* <<ship, bodies>>.
GravityEach(s, bs, cbs, dt) ==
  IF cbs = << >> THEN <<s, bs>>
  ELSE LET cb == Head(cbs)
       IN IF pos_in_hill_radius(bs[cb], s.mov.pos)
          THEN LET gv == gravity_vel(s.mov.pos, s.mov.mass,
                                     bs[cb].mov.pos, bs[cb].mov.mass, dt)
                   s1 == [s EXCEPT
                            !.in_hill_radius_of = Append(s.in_hill_radius_of, cb),
                            !.mov.vel = VAdd(s.mov.vel, gv[1])]
               IN GravityEach(s1, AddVel(bs, cb, gv[2]), Tail(cbs), dt)
          ELSE GravityEach(s, bs, Tail(cbs), dt)

\* An apply_gravity that does not clear in_hill_radius_of first.
apply_gravity_no_clear(s, bs, celestial_bodies, dt) ==
  IF s.state.tag \in {"InSpace", "Destroyed"}
  THEN GravityEach(s, bs, celestial_bodies, dt)
  ELSE <<[s EXCEPT !.mov.vel = bs[s.state.cb].mov.vel], bs>>

\* Ship::apply_gravity; the result is <<ship, bodies>>.
apply_gravity(s, bs, celestial_bodies, dt) ==
  IF s.state.tag \in {"InSpace", "Destroyed"}
  THEN GravityEach([s EXCEPT !.in_hill_radius_of = << >>], bs, celestial_bodies, dt)
  ELSE <<[s EXCEPT !.mov.vel = bs[s.state.cb].mov.vel], bs>>

RECURSIVE ShipsGravity(_, _, _, _, _)
\* The loop of apply_gravity_to_ships from ship k on; <<ships, bodies>>.
ShipsGravity(ss, bs, k, celestial_bodies, dt) ==
  IF k > Len(ss) THEN <<ss, bs>>
  ELSE LET r == apply_gravity(ss[k], bs, celestial_bodies, dt)
       IN ShipsGravity([ss EXCEPT ![k] = r[1]], r[2], k + 1, celestial_bodies, dt)

apply_gravity_to_ships(ss, bs, celestial_bodies, dt) ==
  ShipsGravity(ss, bs, 1, celestial_bodies, dt)

-----------------------------------------------------------------------------
(* Trajectory predictor *)

RECURSIVE LoadEach(_, _)
\* for cb in &celestial_bodies { cb.borrow_mut().mov.load(); }
LoadEach(bs, cbs) ==
  IF cbs = << >> THEN bs
  ELSE LoadEach([bs EXCEPT ![Head(cbs)].mov = Movable_load(bs[Head(cbs)].mov)],
                Tail(cbs))

RECURSIVE SaveEach(_, _)
\* for cb in &celestial_bodies { cb.borrow_mut().mov.save(); }
SaveEach(bs, cbs) ==
  IF cbs = << >> THEN bs
  ELSE SaveEach([bs EXCEPT ![Head(cbs)].mov = Movable_save(bs[Head(cbs)].mov)],
                Tail(cbs))

RECURSIVE UpdateEach(_, _, _, _, _)
\* The loop that integrates the captured bodies and samples them;
\* the result is <<bodies, trail>>.
UpdateEach(bs, cbs, dt, sample, trail) ==
  IF cbs = << >> THEN <<bs, trail>>
  ELSE LET cb == Head(cbs)
           bs1 == [bs EXCEPT ![cb].mov = Movable_update(bs[cb].mov, dt)]
           t1 == IF sample
                 THEN Append(trail, [pos |-> bs1[cb].mov.pos, color |-> bs1[cb].color])
                 ELSE trail
       IN UpdateEach(bs1, Tail(cbs), dt, sample, t1)

RECURSIVE FirstHit(_, _, _)
\* The first captured body the forward check fires against, or 0.
FirstHit(s, bs, cbs) ==
  IF cbs = << >> THEN 0
  ELSE IF check_collision(s, ZERO, bs[Head(cbs)], PHYSICS_STEP) THEN Head(cbs)
  ELSE FirstHit(s, bs, Tail(cbs))

RECURSIVE Rollout(_, _, _, _, _, _, _)

\* An end of iteration that marks the impact but goes on iterating.
RolloutCheck_no_stop(s1, bs2, cbs, i, iterations, dt, t, sample, hit) ==
  IF hit # 0
  THEN Rollout([s1 EXCEPT !.state = Landed(hit, ZERO)], bs2, cbs, i + 1,
               iterations, dt,
               Append(t, [pos |-> s1.mov.pos, color |-> "ORANGE"]))
  ELSE Rollout(s1, bs2, cbs, i + 1, iterations, dt,
               IF s1.state.tag = "InSpace" /\ sample
               THEN Append(t, [pos |-> s1.mov.pos, color |-> "YELLOW"])
               ELSE t)

\* The end of iteration i: s1 and bs2 are the ship and the bodies after
\* their update, t the trail with this iteration's body samples, hit the
\* body the forward check fired against (0: none).
RolloutCheck(s1, bs2, cbs, i, iterations, dt, t, sample, hit) ==
  IF hit # 0
  THEN [s |-> Ship_load([s1 EXCEPT !.state = Landed(hit, ZERO)]),
        bs |-> LoadEach(bs2, cbs),
        trail |-> Append(t, [pos |-> s1.mov.pos, color |-> "ORANGE"]),
        exit |-> "impact"]
  ELSE Rollout(s1, bs2, cbs, i + 1, iterations, dt,
               IF s1.state.tag = "InSpace" /\ sample
               THEN Append(t, [pos |-> s1.mov.pos, color |-> "YELLOW"])
               ELSE t)

\* After the updates of iteration i: u is <<bodies, trail>>.
RolloutUpdated(s1, u, cbs, i, iterations, dt, sample) ==
  RolloutCheck(s1, u[1], cbs, i, iterations, dt, u[2], sample,
               IF s1.state.tag = "InSpace" THEN FirstHit(s1, u[1], cbs) ELSE 0)

\* After the gravity of iteration i: g is <<ship, bodies>>.
RolloutGravity(g, cbs, i, iterations, dt, trail, sample) ==
  RolloutUpdated([g[1] EXCEPT !.mov = Movable_update(g[1].mov, dt)],
                 UpdateEach(g[2], cbs, dt, sample, trail),
                 cbs, i, iterations, dt, sample)

\* Iterations i..iterations-1 of the rollout of one ship and the restore
\* that ends it: [s, bs, trail, exit].
Rollout(s, bs, cbs, i, iterations, dt, trail) ==
  IF i >= iterations
  THEN [s |-> Ship_load(s), bs |-> LoadEach(bs, cbs), trail |-> trail,
        exit |-> "normal"]
  ELSE RolloutGravity(
         apply_gravity(s, apply_gravity_to_celestial_bodies(bs, cbs, dt), cbs, dt),
         cbs, i, iterations, dt, trail, (i % 5 = 0) \/ (i = iterations - 1))

RECURSIVE SimulateShips(_, _, _, _, _, _, _)
\* The 'ships loop from ship k on: [ships, bodies, trail, exits].
SimulateShips(ss, bs, k, iterations, dt, trail, exits) ==
  IF k > Len(ss) THEN [ships |-> ss, bodies |-> bs, trail |-> trail, exits |-> exits]
  ELSE LET celestial_bodies == ss[k].in_hill_radius_of
           r == Rollout(Ship_save(ss[k]), SaveEach(bs, celestial_bodies),
                        celestial_bodies, 0, iterations, dt, trail)
       IN SimulateShips([ss EXCEPT ![k] = r.s], r.bs, k + 1, iterations, dt,
                        r.trail, Append(exits, r.exit))

simulate_hill_radius(ss, bs, iterations, dt) ==
  SimulateShips(ss, bs, 1, iterations, dt, << >>, << >>)

-----------------------------------------------------------------------------
(* main: scenario set-up and the loop body *)

RECURSIVE IndicesWhere(_, _, _)
\* The indices i..Len(bs) of the bodies whose type is (major) or is not
\* (minor) an asteroid, in order.
IndicesWhere(bs, i, minor) ==
  IF i > Len(bs) THEN << >>
  ELSE IF (bs[i].cb_type = "Asteroid") = minor
       THEN <<i>> \o IndicesWhere(bs, i + 1, minor)
       ELSE IndicesWhere(bs, i + 1, minor)

all_celestial_bodies(bs) == [i \in 1..Len(bs) |-> i]

major_celestial_bodies(bs) == IndicesWhere(bs, 1, FALSE)

minor_celestial_bodies(bs) == IndicesWhere(bs, 1, TRUE)

cb_parent == 1

\* Lines 838-840: the gravity phase of one tick; <<ships, bodies>>.
GravityStep(ss, bs, dt) ==
  LET bs1 == apply_gravity_to_celestial_bodies(bs, major_celestial_bodies(bs), dt)
      bs2 == apply_gravity_asteroids(bs1, minor_celestial_bodies(bs), cb_parent, dt)
  IN apply_gravity_to_ships(ss, bs2, all_celestial_bodies(bs), dt)

\* Lines 842-844: every game object integrates its position.
UpdateBodies(bs, dt) ==
  [i \in 1..Len(bs) |-> [bs[i] EXCEPT !.mov = Movable_update(bs[i].mov, dt)]]

UpdateShips(ss, dt) ==
  [k \in 1..Len(ss) |-> [ss[k] EXCEPT !.mov = Movable_update(ss[k].mov, dt)]]

\* Lines 847-849.
CollideShips(ss, bs, dt) ==
  [k \in 1..Len(ss) |-> process_collision(ss[k], bs, all_celestial_bodies(bs), dt)]

\* One whole live tick; <<ships, bodies>>.
TickOf(ss, bs, dt) ==
  LET g == GravityStep(ss, bs, dt)
      bs1 == UpdateBodies(g[2], dt)
  IN <<CollideShips(UpdateShips(g[1], dt), bs1, dt), bs1>>

\* Scenario parameters (initialize passes such values to the constructors).
StarMass == {4}
StarRadius == {5}
PlanetDistance == {10}
PlanetAngle == {0}
PlanetMass == {2}
PlanetRadius == {3}
PlanetType == {"Planet"}
ShipStart == { <<vec2(7, 0), vec2(-10, 4)>>, <<vec2(20, 0), vec2(-10, 0)>>,
               <<vec2(0, 20), vec2(0, 0)>>, <<vec2(6, 0), vec2(0, 0)>> }
ShipFuel == {15}

Scenarios ==
  { <<sol, from_parent(sol, d, a, pm, pr, pt, "BLUE")>> :
      <<sol, d, a, pm, pr, pt>> \in
        { CelestialBody_new(vec2(0, 0), sm, sr, "Star", "ORANGE") :
            <<sm, sr>> \in StarMass \X StarRadius }
        \X PlanetDistance \X PlanetAngle \X PlanetMass \X PlanetRadius \X PlanetType }

-----------------------------------------------------------------------------
(* The state machine *)

Coord(v) == v.nan \/ (Abs(v.x) <= MaxPos /\ Abs(v.y) <= MaxPos)

InBox(ss, bs) ==
  /\ \A k \in 1..Len(ss) : Coord(ss[k].mov.pos)
  /\ \A i \in 1..Len(bs) : Coord(bs[i].mov.pos)

RECURSIVE LandExactEach(_, _, _, _)
\* Every landing the loop of process_collision accepts has its normal on
\* an axis.
LandExactEach(s, bs, cbs, dt) ==
  IF cbs = << >> THEN TRUE
  ELSE LET cb == Head(cbs)
           hit == check_collision(s, ZERO, bs[cb], dt)
           s1 == IF hit THEN land(s, bs, cb) ELSE s
       IN /\ (hit /\ s1.state.tag = "Landed")
               => OnAxis(VSub(s.mov.pos, bs[cb].mov.pos))
          /\ LandExactEach(s1, bs, Tail(cbs), dt)

LandExact(ss, bs, dt) ==
  \A k \in 1..Len(ss) :
    ss[k].state.tag = "InSpace"
      => LandExactEach(ss[k], bs, all_celestial_bodies(bs), dt)

\* The tick that starts here stays within the explored box.
TickExplored(ss, bs, dt) ==
  LET g == GravityStep(ss, bs, dt)
      ss1 == UpdateShips(g[1], dt)
      bs1 == UpdateBodies(g[2], dt)
  IN InBox(ss1, bs1) /\ LandExact(ss1, bs1, dt)

\* The history record: the operation, the player's ship as it was before
\* it (for the phases of a tick: before the tick), how a rollout ended and
\* what it returned, and whether throttle_up was called in this frame
\* before the tick.
Note(op, exit, trail, thrust) ==
  [op |-> op, was |-> ships[1].state, fuel |-> ships[1].fuel,
   hill |-> ships[1].in_hill_radius_of, exit |-> exit, trail |-> trail,
   thrust |-> thrust]

M0 == Movable_new(ZERO, ZERO, 1, 0)

Saved(mv) == [pos |-> mv.pos, vel |-> mv.vel, rot |-> mv.rot, mass |-> mv.mass]

MLog0 == [loads |-> 0, undone |-> FALSE, op |-> "new"]

\* simulated_trail_timer, in units of PHYSICS_STEP
Timer0 == Timer_new(25)

\* n: update() calls so far; first, dt: the step of the first and of the
\* last of them; same: all of them had the same step.
TLog0 == [n |-> 0, first |-> 0, dt |-> 0, same |-> TRUE]

\* saves: save() calls so far; saved: the flight state held at the last of
\* them; loads: load() calls since then; op: the last operation.
SLog0 == [saves |-> 0, saved |-> InSpace, loads |-> 0, op |-> "new"]

InitGame ==
  /\ bodies \in Scenarios
  /\ ships \in { <<Ship_new(pv[1], pv[2], f)>> : pv \in ShipStart, f \in ShipFuel }
  /\ pc = "frame"
  /\ ticks = 0
  /\ last = [op |-> "init", was |-> InSpace, fuel |-> 0, hill |-> << >>,
             exit |-> "none", trail |-> << >>, thrust |-> FALSE]
  /\ m = M0
  /\ msaved = Saved(M0)
  /\ mlog = MLog0
  /\ timer = Timer0
  /\ tlog = TLog0
  /\ slog = SLog0

Idle == UNCHANGED <<m, msaved, mlog, timer, tlog, slog>>

\* A frame of main's loop polls W, then A, then D (lines 817-825), runs its
\* ticks and then, when its timer fires, the predictor (line 862).  pc is
\* "frame" at the start of a frame, "thrust" after throttle_up, "turned"
\* after a turn, "update" and "collision" inside a tick, "ticked" after one.
ThrottleUp(dt) ==
  /\ pc \in {"frame", "ticked"}
  /\ ships' = [ships EXCEPT ![1] = throttle_up(ships[1], dt)]
  /\ pc' = "thrust"
  /\ last' = Note("throttle_up", "none", << >>, TRUE)
  /\ UNCHANGED <<bodies, ticks>>
  /\ Idle

TurnLeft(dt) ==
  /\ pc \in {"frame", "ticked", "thrust"}
  /\ Abs(ships[1].mov.rot - SHIP_ROT_SPEED * dt) <= MaxTurns * 90
  /\ ships' = [ships EXCEPT ![1] = turn_left(ships[1], dt)]
  /\ pc' = "turned"
  /\ last' = Note("turn_left", "none", << >>, pc = "thrust")
  /\ UNCHANGED <<bodies, ticks>>
  /\ Idle

TurnRight(dt) ==
  /\ pc \in {"frame", "ticked", "thrust"}
  /\ Abs(ships[1].mov.rot + SHIP_ROT_SPEED * dt) <= MaxTurns * 90
  /\ ships' = [ships EXCEPT ![1] = turn_right(ships[1], dt)]
  /\ pc' = "turned"
  /\ last' = Note("turn_right", "none", << >>, pc = "thrust")
  /\ UNCHANGED <<bodies, ticks>>
  /\ Idle

GravityPhase ==
  /\ pc \in {"frame", "thrust", "turned", "ticked"}
  /\ ticks < MaxTicks
  /\ TickExplored(ships, bodies, PHYSICS_STEP)
  /\ LET g == GravityStep(ships, bodies, PHYSICS_STEP)
     IN ships' = g[1] /\ bodies' = g[2]
  /\ pc' = "update"
  /\ ticks' = ticks + 1
  /\ last' = Note("gravity", "none", << >>, pc \in {"thrust", "turned"} /\ last.thrust)
  /\ Idle

UpdatePhase ==
  /\ pc = "update"
  /\ ships' = UpdateShips(ships, PHYSICS_STEP)
  /\ bodies' = UpdateBodies(bodies, PHYSICS_STEP)
  /\ pc' = "collision"
  /\ last' = [last EXCEPT !.op = "update"]
  /\ UNCHANGED ticks
  /\ Idle

CollisionPhase ==
  /\ pc = "collision"
  /\ ships' = CollideShips(ships, bodies, PHYSICS_STEP)
  /\ pc' = "ticked"
  /\ last' = [last EXCEPT !.op = "process_collision"]
  /\ UNCHANGED <<bodies, ticks>>
  /\ Idle

Simulate(iterations, dt) ==
  /\ pc = "ticked"
  /\ LET r == simulate_hill_radius(ships, bodies, iterations, dt)
     IN /\ ships' = r.ships
        /\ bodies' = r.bodies
        /\ last' = Note("simulate_hill_radius", r.exits[1], r.trail, FALSE)
  /\ pc' = "frame"
  /\ UNCHANGED ticks
  /\ Idle

Next ==
  \/ \E dt \in 1..MaxThrottleDt : ThrottleUp(dt)
  \/ \E dt \in 1..MaxTurnDt : TurnLeft(dt)
  \/ \E dt \in 1..MaxTurnDt : TurnRight(dt)
  \/ GravityPhase
  \/ UpdatePhase
  \/ CollisionPhase
  \/ \E iterations \in 0..MaxIter, dt \in 1..MaxSimDt : Simulate(iterations, dt)

Spec == InitGame /\ [][Next]_vars

-----------------------------------------------------------------------------
(* A Movable on its own: save(), load(), update(dt) and the writes the     *)
(* solver and the ship make to vel and rot, in any order.                  *)

GameIdle == UNCHANGED <<bodies, ships, pc, ticks, last, timer, tlog, slog>>

InitMovable ==
  /\ bodies = <<CelestialBody_new(ZERO, 1, 1, "Star", "ORANGE")>>
  /\ ships = <<Ship_new(ZERO, ZERO, 0)>>
  /\ pc = "frame"
  /\ ticks = 0
  /\ last = [op |-> "init", was |-> InSpace, fuel |-> 0, hill |-> << >>,
             exit |-> "none", trail |-> << >>, thrust |-> FALSE]
  /\ m \in { Movable_new(ZERO, vec2(v, 0), mass, 0) :
               v \in {0, 1}, mass \in {1, 2} }
  /\ msaved = Saved(m)
  /\ mlog = MLog0
  /\ timer = Timer0
  /\ tlog = TLog0
  /\ slog = SLog0

MSave ==
  /\ m' = Movable_save(m)
  /\ msaved' = Saved(m)
  /\ mlog' = [loads |-> 0, undone |-> FALSE, op |-> "save"]
  /\ GameIdle

MLoad ==
  /\ mlog.loads < MaxLoads
  /\ m' = Movable_load(m)
  /\ mlog' = [loads |-> mlog.loads + 1, undone |-> Saved(m) # msaved,
              op |-> "load"]
  /\ UNCHANGED msaved
  /\ GameIdle

MUpdate(dt) ==
  /\ m' = Movable_update(m, dt)
  /\ Abs(m'.pos.x) <= MaxMovPos
  /\ mlog' = [mlog EXCEPT !.op = "update"]
  /\ UNCHANGED msaved
  /\ GameIdle

\* vel += dv, as the gravity solver and throttle_up do
MAddVel(dv) ==
  /\ m' = [m EXCEPT !.vel = VAdd(m.vel, dv)]
  /\ Abs(m'.vel.x) <= MaxMovVel
  /\ mlog' = [mlog EXCEPT !.op = "vel"]
  /\ UNCHANGED msaved
  /\ GameIdle

\* rot += d, as turn_left and turn_right do
MTurn(d) ==
  /\ m' = [m EXCEPT !.rot = m.rot + d]
  /\ Abs(m'.rot) <= MaxMovRot * 90
  /\ mlog' = [mlog EXCEPT !.op = "rot"]
  /\ UNCHANGED msaved
  /\ GameIdle

NextMovable ==
  \/ MSave
  \/ MLoad
  \/ \E dt \in 1..2 : MUpdate(dt)
  \/ \E dv \in {vec2(1, 0), vec2(-1, 0)} : MAddVel(dv)
  \/ \E d \in {90, -90} : MTurn(d)

SpecMovable == InitMovable /\ [][NextMovable]_vars

-----------------------------------------------------------------------------
(* The gravity solver on its own: the three solver functions and update,   *)
(* called in any order on a star, a second body and an asteroid.           *)

SolverStar == CelestialBody_new(ZERO, 4, 5, "Star", "ORANGE")

SolverDistance == {3, 5}
SolverAngle == {0, 90}
SolverMass == {2, 5}
SolverPos == {vec2(0, 0), vec2(3, 0)}
SolverShipPos == {vec2(0, 0), vec2(3, 0), vec2(6, 0), vec2(4, 4)}

\* The second body: a planet or an asteroid in orbit (from_parent), or a
\* planet placed by CelestialBody::new.
SolverSecond ==
  { from_parent(SolverStar, d, a, mass, 1, t, "GRAY") :
      <<d, a, mass, t>> \in SolverDistance \X SolverAngle \X SolverMass
                             \X {"Planet", "Asteroid"} }
  \cup { CelestialBody_new(p, mass, 1, "Planet", "BLUE") :
           <<p, mass>> \in SolverPos \X SolverMass }

SolverAsteroid ==
  { from_parent(SolverStar, d, a, 2, 1, "Asteroid", "GRAY") :
      <<d, a>> \in SolverDistance \X SolverAngle }

InitSolver ==
  /\ bodies \in { <<SolverStar, b, a>> : <<b, a>> \in SolverSecond \X SolverAsteroid }
  /\ ships \in { <<Ship_new(p, ZERO, 0)>> : p \in SolverShipPos }
  /\ pc = "frame"
  /\ ticks = 0
  /\ last = [op |-> "init", was |-> InSpace, fuel |-> 0, hill |-> << >>,
             exit |-> "none", trail |-> << >>, thrust |-> FALSE]
  /\ m = M0
  /\ msaved = Saved(M0)
  /\ mlog = MLog0
  /\ timer = Timer0
  /\ tlog = TLog0
  /\ slog = SLog0

SolverStep(op) ==
  /\ ticks < MaxSolverSteps
  /\ ticks' = ticks + 1
  /\ last' = Note(op, "none", << >>, FALSE)
  /\ UNCHANGED pc
  /\ Idle

SolverMajors(dt) ==
  /\ SolverStep("apply_gravity_to_celestial_bodies")
  /\ bodies' = apply_gravity_to_celestial_bodies(bodies, major_celestial_bodies(bodies), dt)
  /\ UNCHANGED ships

SolverAsteroids(dt) ==
  /\ SolverStep("apply_gravity_asteroids")
  /\ bodies' = apply_gravity_asteroids(bodies, minor_celestial_bodies(bodies), cb_parent, dt)
  /\ UNCHANGED ships

SolverShips(dt) ==
  /\ SolverStep("apply_gravity_to_ships")
  /\ LET g == apply_gravity_to_ships(ships, bodies, all_celestial_bodies(bodies), dt)
     IN ships' = g[1] /\ bodies' = g[2]

SolverUpdate(dt) ==
  /\ SolverStep("update")
  /\ InBox(UpdateShips(ships, dt), UpdateBodies(bodies, dt))
  /\ ships' = UpdateShips(ships, dt)
  /\ bodies' = UpdateBodies(bodies, dt)

NextSolver ==
  \/ \E dt \in 1..MaxSolverDt : SolverMajors(dt)
  \/ \E dt \in 1..MaxSolverDt : SolverAsteroids(dt)
  \/ \E dt \in 1..MaxSolverDt : SolverShips(dt)
  \/ \E dt \in 1..MaxSolverDt : SolverUpdate(dt)

SpecSolver == InitSolver /\ [][NextSolver]_vars

-----------------------------------------------------------------------------
(* A Timer on its own: update(dt) with any sequence of steps.              *)

InitTimer ==
  /\ bodies = <<CelestialBody_new(ZERO, 1, 1, "Star", "ORANGE")>>
  /\ ships = <<Ship_new(ZERO, ZERO, 0)>>
  /\ pc = "frame"
  /\ ticks = 0
  /\ last = [op |-> "init", was |-> InSpace, fuel |-> 0, hill |-> << >>,
             exit |-> "none", trail |-> << >>, thrust |-> FALSE]
  /\ m = M0
  /\ msaved = Saved(M0)
  /\ mlog = MLog0
  /\ timer \in { Timer_new(threshold) : threshold \in 1..MaxThreshold }
  /\ tlog = TLog0
  /\ slog = SLog0

TimerUpdate(dt) ==
  /\ tlog.n < MaxUpdates
  /\ timer' = Timer_update(timer, dt)
  /\ tlog' = [n |-> tlog.n + 1,
              first |-> IF tlog.n = 0 THEN dt ELSE tlog.first,
              dt |-> dt,
              same |-> tlog.n = 0 \/ (tlog.same /\ dt = tlog.first)]
  /\ UNCHANGED <<bodies, ships, pc, ticks, last, m, msaved, mlog, slog>>

NextTimer == \E dt \in 0..MaxTimerDt : TimerUpdate(dt)

SpecTimer == InitTimer /\ [][NextTimer]_vars

-----------------------------------------------------------------------------
(* The game with a light asteroid next to the star: its scoping circle is  *)
(* small enough for a ship to enter and leave it within a few ticks.       *)

HillAsteroidMass == {1}
HillAsteroidRadius == {1}
HillShipStart == { <<vec2(12, 2), vec2(0, 2)>>, <<vec2(7, 0), vec2(0, 0)>>,
                   <<vec2(14, 0), vec2(0, 4)>>, <<vec2(0, 7), vec2(0, 0)>> }

HillScenarios ==
  { <<sol, from_parent(sol, d, a, am, ar, "Asteroid", "GRAY")>> :
      <<sol, d, a, am, ar>> \in
        { CelestialBody_new(vec2(0, 0), sm, sr, "Star", "ORANGE") :
            <<sm, sr>> \in StarMass \X StarRadius }
        \X PlanetDistance \X PlanetAngle \X HillAsteroidMass \X HillAsteroidRadius }

InitHill ==
  /\ bodies \in HillScenarios
  /\ ships \in { <<Ship_new(pv[1], pv[2], f)>> : pv \in HillShipStart, f \in ShipFuel }
  /\ pc = "frame"
  /\ ticks = 0
  /\ last = [op |-> "init", was |-> InSpace, fuel |-> 0, hill |-> << >>,
             exit |-> "none", trail |-> << >>, thrust |-> FALSE]
  /\ m = M0
  /\ msaved = Saved(M0)
  /\ mlog = MLog0
  /\ timer = Timer0
  /\ tlog = TLog0
  /\ slog = SLog0

SpecHill == InitHill /\ [][Next]_vars

-----------------------------------------------------------------------------
(* The tick on its own with three major bodies, an asteroid and two ships: *)
(* apply_gravity_to_ships and process_collision take a slice of ships.     *)

FleetPlanetAngle == {90, 180}
FleetShipStart == { <<vec2(6, 0), vec2(0, 0)>>, <<vec2(7, 0), vec2(-10, 4)>>,
                    <<vec2(16, 0), vec2(0, 4)>>, <<vec2(0, -6), vec2(0, 0)>>,
                    <<vec2(-4, -7), vec2(0, 0)>> }

FleetScenarios ==
  { <<sol, from_parent(sol, d, a, pm, pr, "Planet", "BLUE"),
      from_parent(sol, d, b, pm, pr, "Planet", "GREEN"),
      from_parent(sol, d, 270, am, ar, "Asteroid", "GRAY")>> :
      <<sol, d, a, b, pm, pr, am, ar>> \in
        { CelestialBody_new(vec2(0, 0), sm, sr, "Star", "ORANGE") :
            <<sm, sr>> \in StarMass \X StarRadius }
        \X PlanetDistance \X PlanetAngle \X FleetPlanetAngle \X PlanetMass
        \X PlanetRadius \X HillAsteroidMass \X HillAsteroidRadius }

InitFleet ==
  /\ bodies \in FleetScenarios
  /\ ships \in { <<Ship_new(p[1], p[2], f), Ship_new(q[1], q[2], f)>> :
                   <<p, q, f>> \in FleetShipStart \X FleetShipStart \X ShipFuel }
  /\ pc = "frame"
  /\ ticks = 0
  /\ last = [op |-> "init", was |-> InSpace, fuel |-> 0, hill |-> << >>,
             exit |-> "none", trail |-> << >>, thrust |-> FALSE]
  /\ m = M0
  /\ msaved = Saved(M0)
  /\ mlog = MLog0
  /\ timer = Timer0
  /\ tlog = TLog0
  /\ slog = SLog0

NextFleet == GravityPhase \/ UpdatePhase \/ CollisionPhase

SpecFleet == InitFleet /\ [][NextFleet]_vars

-----------------------------------------------------------------------------
(* The checkpoint of a Ship on its own: save(), load() and throttle_up in  *)
(* any order, from every flight state.                                     *)

StoreShipState == { InSpace, Destroyed, Landed(2, ZERO), Landed(2, vec2(10, 0)) }
StoreShipPos == { vec2(16, 0), vec2(17, 0) }
StoreShipVel == { vec2(0, 4), vec2(1, 4) }
StoreShipFuel == { 0, 20 }

InitStore ==
  /\ bodies \in Scenarios
  /\ ships \in { <<[Ship_new(p, v, 20) EXCEPT !.state = st, !.fuel = f]>> :
                   <<p, v, st, f>> \in StoreShipPos \X StoreShipVel
                                        \X StoreShipState \X StoreShipFuel }
  /\ pc = "frame"
  /\ ticks = 0
  /\ last = [op |-> "init", was |-> InSpace, fuel |-> 0, hill |-> << >>,
             exit |-> "none", trail |-> << >>, thrust |-> FALSE]
  /\ m = M0
  /\ msaved = Saved(M0)
  /\ mlog = MLog0
  /\ timer = Timer0
  /\ tlog = TLog0
  /\ slog = SLog0

StoreIdle == UNCHANGED <<bodies, pc, ticks, last, m, msaved, mlog, timer, tlog>>

StoreSave ==
  /\ slog.saves < MaxShipSaves
  /\ ships' = [ships EXCEPT ![1] = Ship_save(ships[1])]
  /\ slog' = [saves |-> slog.saves + 1, saved |-> ships[1].state, loads |-> 0,
              op |-> "save"]
  /\ StoreIdle

StoreLoad ==
  /\ slog.loads < MaxShipLoads
  /\ ships' = [ships EXCEPT ![1] = Ship_load(ships[1])]
  /\ slog' = [slog EXCEPT !.loads = slog.loads + 1, !.op = "load"]
  /\ StoreIdle

StoreThrottle(dt) ==
  /\ ships[1].fuel > 0
  /\ ships' = [ships EXCEPT ![1] = throttle_up(ships[1], dt)]
  /\ slog' = [slog EXCEPT !.op = "throttle_up"]
  /\ StoreIdle

NextStore ==
  \/ StoreSave
  \/ StoreLoad
  \/ \E dt \in 1..MaxThrottleDt : StoreThrottle(dt)

SpecStore == InitStore /\ [][NextStore]_vars

-----------------------------------------------------------------------------
(* Claims *)

\* The live state a rollout must leave alone: of every ship its position,
\* velocity, rotation, flight state and fuel, of every body its position,
\* velocity and rotation.
Kinematics(mv) == <<mv.pos, mv.vel, mv.rot>>

LiveState(ss, bs) ==
  << [k \in 1..Len(ss) |-> <<Kinematics(ss[k].mov), ss[k].state, ss[k].fuel>>],
     [i \in 1..Len(bs) |-> Kinematics(bs[i].mov)] >>

IsSimulate == last'.op = "simulate_hill_radius"

\* C1: simulate_hill_radius returns with every ship's position, velocity,
\* rotation, flight state and fuel and every body's position, velocity and
\* rotation as they were before the call, on both exit paths.
C1_RolloutRestoresLiveState ==
  [][IsSimulate => LiveState(ships', bodies') = LiveState(ships, bodies)]_vars

\* A rollout that ran away from the live position and ended on a predicted
\* impact has just returned.
C1_Witness ==
  /\ last.op = "simulate_hill_radius"
  /\ last.exit = "impact"
  /\ last.trail[Len(last.trail)].pos # ships[1].mov.pos

\* What the next live tick leaves: the live state and the influencer sets.
AfterTick(ss, bs) ==
  LET t == TickOf(ss, bs, PHYSICS_STEP)
  IN <<LiveState(t[1], t[2]),
       [k \in 1..Len(ss) |-> t[1][k].in_hill_radius_of]>>

\* C2: the live tick that follows a call of simulate_hill_radius ends in
\* the same positions, velocities, rotations, flight state, fuel and
\* influencer set as the live tick run without the call.
C2_NextTickUnaffected ==
  [][IsSimulate => AfterTick(ships', bodies') = AfterTick(ships, bodies)]_vars

\* A rollout has just returned and has changed the ship's influencer set.
C2_Witness ==
  /\ last.op = "simulate_hill_radius"
  /\ last.hill # ships[1].in_hill_radius_of

\* C3: load() sets position, velocity and rotation to the values they had
\* at the last save(), whatever changed them since, a second load() does so
\* again, and neither save() nor load() changes mass.
C3_LoadRestoresSave ==
  [][ /\ mlog'.op = "load" => Saved(m') = msaved
      /\ mlog'.op \in {"load", "save"} => m'.mass = m.mass ]_vars

\* The second load() after one save() has just undone a change made after
\* the first.
C3_Witness == mlog.op = "load" /\ mlog.loads = 2 /\ mlog.undone

\* The geometry the landing claims speak of, for a ship s and a body cb.

\* The position one step ahead, with tv added to the velocity, is inside
\* radius + SHIP_SIZE / 2 of the body.
ForwardInside(s, tv, cb, dt) ==
  /\ ~s.mov.pos.nan /\ ~s.mov.vel.nan /\ ~tv.nan /\ ~cb.mov.pos.nan
  /\ LET px == s.mov.pos.x + (s.mov.vel.x + tv.x) * dt - cb.mov.pos.x
         py == s.mov.pos.y + (s.mov.vel.y + tv.y) * dt - cb.mov.pos.y
         reach == cb.radius + SHIP_SIZE \div 2
     IN px * px + py * py < reach * reach

RelSpeedSquared(s, cb) ==
  (s.mov.vel.x - cb.mov.vel.x) * (s.mov.vel.x - cb.mov.vel.x)
    + (s.mov.vel.y - cb.mov.vel.y) * (s.mov.vel.y - cb.mov.vel.y)

\* The direction the ship points (rot, any number of turns, either sign) is
\* within 30 degrees of the outward normal from the body's centre to the
\* ship: the normal has a positive component along the heading and
\* tan^2 of the angle between them is at most 1/3.
HeadingWithinThirty(s, cb) ==
  LET dx == s.mov.pos.x - cb.mov.pos.x
      dy == s.mov.pos.y - cb.mov.pos.y
      along == CosDeg(s.mov.rot) * dx + SinDeg(s.mov.rot) * dy
      across == CosDeg(s.mov.rot) * dy - SinDeg(s.mov.rot) * dx
  IN along > 0 /\ 3 * across * across <= along * along

OffCentre(s, cb) == s.mov.pos # cb.mov.pos

AtCollision == pc = "collision" /\ pc' = "ticked"

\* C4: an InSpace ship whose one-step-ahead position is inside a body's
\* reach while it is too fast relative to that body, or points more than 30
\* degrees off the outward normal, is Destroyed when process_collision
\* returns, whatever other bodies are in the list.
C4_BadContactDestroys ==
  [][ ( /\ AtCollision
        /\ ships[1].state.tag = "InSpace"
        /\ \E i \in 1..Len(bodies) :
             /\ ForwardInside(ships[1], ZERO, bodies[i], PHYSICS_STEP)
             /\ \/ RelSpeedSquared(ships[1], bodies[i])
                     > TERMINAL_VELOCITY * TERMINAL_VELOCITY
                \/ /\ OffCentre(ships[1], bodies[i])
                   /\ ~HeadingWithinThirty(ships[1], bodies[i]) )
      => ships'[1].state.tag = "Destroyed" ]_vars

\* C5: an InSpace ship whose one-step-ahead position is inside the reach of
\* exactly one body, slow enough relative to it and pointing within 30
\* degrees of the outward normal, is Landed on that body when
\* process_collision returns.
C5_GoodContactLands ==
  [][ \A i \in 1..Len(bodies) :
        ( /\ AtCollision
          /\ ships[1].state.tag = "InSpace"
          /\ ForwardInside(ships[1], ZERO, bodies[i], PHYSICS_STEP)
          /\ \A j \in 1..Len(bodies) :
               j # i => ~ForwardInside(ships[1], ZERO, bodies[j], PHYSICS_STEP)
          /\ RelSpeedSquared(ships[1], bodies[i])
               <= TERMINAL_VELOCITY * TERMINAL_VELOCITY
          /\ OffCentre(ships[1], bodies[i])
          /\ HeadingWithinThirty(ships[1], bodies[i]) )
        => (ships'[1].state.tag = "Landed" /\ ships'[1].state.cb = i) ]_vars

\* The flight state process_collision holds after the first n bodies of
\* its list.
StateAfterBodies(n) ==
  process_collision(ships[1], bodies,
                    SubSeq(all_celestial_bodies(bodies), 1, n), PHYSICS_STEP).state

\* C6: a ship whose flight state has been set to Destroyed stays Destroyed:
\* across every operation, and across the remaining bodies of the
\* process_collision call that destroyed it.
C6_DestroyedIsTerminal ==
  [][ /\ ships[1].state.tag = "Destroyed" => ships'[1].state.tag = "Destroyed"
      /\ ( /\ AtCollision
           /\ \E n \in 0..Len(bodies) : StateAfterBodies(n).tag = "Destroyed" )
         => ships'[1].state.tag = "Destroyed" ]_vars

\* C7: a ship that starts a live tick Landed on a body with zero takeoff
\* velocity, throttle_up not having been called since the tick before, is
\* Landed on the same body when the tick ends.
C7_NoSpontaneousLiftoff ==
  ( /\ pc = "ticked"
    /\ last.was.tag = "Landed"
    /\ last.was.tv = ZERO
    /\ ~last.thrust )
  => (ships[1].state.tag = "Landed" /\ ships[1].state.cb = last.was.cb)

\* C8: process_collision on a ship Landed(anchor, tv) either finds the
\* forward check with tv clear and makes it InSpace with velocity + tv, or
\* leaves the ship as it is; nothing else of the ship changes.
C8_LandedOutcomes ==
  [][ (AtCollision /\ ships[1].state.tag = "Landed") =>
        LET s == ships[1]
        IN IF ~ForwardInside(s, s.state.tv, bodies[s.state.cb], PHYSICS_STEP)
           THEN ships'[1] = [s EXCEPT !.state = InSpace,
                                      !.mov.vel = VAdd(s.mov.vel, s.state.tv)]
           ELSE ships'[1] = s ]_vars

\* A ship that was Landed with thrust accumulated has just taken off.
C8_Witness ==
  /\ last.op = "process_collision"
  /\ last.was.tag = "Landed"
  /\ last.was.tv # ZERO
  /\ ships[1].state.tag = "InSpace"

\* C9: 0 <= fuel <= max_fuel for every ship, in every reachable state.
C9_FuelInRange ==
  \A k \in 1..Len(ships) : 0 <= ships[k].fuel /\ ships[k].fuel <= ships[k].max_fuel

Coincide(p, q) == ~p.nan /\ ~q.nan /\ p = q

\* C11: gravity_vel of two coincident positions returns two zero deltas,
\* and no operation makes a velocity of a body or of the ship not-a-number.
C11_CoincidentAddsZero ==
  [][ /\ \A i, j \in 1..Len(bodies) :
           (i # j /\ Coincide(bodies[i].mov.pos, bodies[j].mov.pos))
             => gravity_vel(bodies[i].mov.pos, bodies[i].mov.mass,
                            bodies[j].mov.pos, bodies[j].mov.mass, PHYSICS_STEP)
                  = <<ZERO, ZERO>>
      /\ \A i \in 1..Len(bodies) :
           ~bodies[i].mov.vel.nan => ~bodies'[i].mov.vel.nan
      /\ \A k \in 1..Len(ships) :
           ~ships[k].mov.vel.nan => ~ships'[k].mov.vel.nan ]_vars

\* C12: a call of apply_gravity_asteroids changes the velocity of each
\* asteroid by what the call would give it with that asteroid alone in the
\* list, and leaves every position, and the velocity of the parent and of
\* every other body that is not an asteroid, as they were.
C12_AsteroidsPulledByParentOnly ==
  [][ last'.op = "apply_gravity_asteroids" =>
        \E dt \in 1..MaxSolverDt :
          \A i \in 1..Len(bodies) :
            /\ bodies'[i].mov.pos = bodies[i].mov.pos
            /\ bodies'[i].mov.vel =
                 IF bodies[i].cb_type = "Asteroid"
                 THEN apply_gravity_asteroids(bodies, <<i>>, cb_parent, dt)[i].mov.vel
                 ELSE bodies[i].mov.vel ]_vars

\* apply_gravity_asteroids has just pulled two asteroids that are at the
\* same position.
C12_Witness ==
  /\ last.op = "apply_gravity_asteroids"
  /\ bodies[2].cb_type = "Asteroid"
  /\ bodies[3].cb_type = "Asteroid"
  /\ Coincide(bodies[2].mov.pos, bodies[3].mov.pos)
  /\ ~bodies[2].mov.vel.nan
  /\ ~bodies[3].mov.vel.nan
  /\ bodies[1].mov.vel = ZERO

\* The squared distance from p to the position of body b.
DistSquared(b, p) ==
  (p.x - b.mov.pos.x) * (p.x - b.mov.pos.x) + (p.y - b.mov.pos.y) * (p.y - b.mov.pos.y)

\* hill_radius for an Asteroid, 3 * hill_radius for a Star, Planet or Moon;
\* only taken of a finite hill radius.
ScopingRadius(b) ==
  IF b.cb_type = "Asteroid" THEN b.hill_radius.r ELSE 3 * b.hill_radius.r

\* C13: for every body and every point (the ship's position),
\* pos_in_hill_radius is true exactly when the hill radius is infinite or
\* the squared distance is strictly less than the squared scoping radius;
\* the set Ship::apply_gravity collects is the set of these bodies.
C13_HillScopeIsStrict ==
  \A i \in 1..Len(bodies), k \in 1..Len(ships) :
    (~bodies[i].mov.pos.nan /\ ~ships[k].mov.pos.nan) =>
      /\ pos_in_hill_radius(bodies[i], ships[k].mov.pos)
           <=> \/ bodies[i].hill_radius.inf
               \/ DistSquared(bodies[i], ships[k].mov.pos)
                    < ScopingRadius(bodies[i]) * ScopingRadius(bodies[i])
      /\ last.op = "apply_gravity_to_ships" =>
           ( (\E n \in 1..Len(ships[k].in_hill_radius_of) :
                 ships[k].in_hill_radius_of[n] = i)
             <=> pos_in_hill_radius(bodies[i], ships[k].mov.pos) )

\* Ship::apply_gravity has just scoped a ship that is exactly at the scoping
\* radius of an asteroid (left out), inside that of a planet (taken, and
\* outside its bare hill radius) and in reach of the star.
C13_Witness ==
  /\ last.op = "apply_gravity_to_ships"
  /\ ships[1].in_hill_radius_of = <<1, 2>>
  /\ bodies[2].cb_type = "Planet"
  /\ ~bodies[2].hill_radius.inf
  /\ DistSquared(bodies[2], ships[1].mov.pos)
       >= bodies[2].hill_radius.r * bodies[2].hill_radius.r
  /\ bodies[3].cb_type = "Asteroid"
  /\ ~ships[1].mov.pos.nan
  /\ DistSquared(bodies[3], ships[1].mov.pos)
       = bodies[3].hill_radius.r * bodies[3].hill_radius.r

\* v is the real number c * A / d2^(3/2) (one component of the unit vector
\* c / sqrt(d2) scaled by A / d2) truncated towards zero, where |c|^2 <= d2.
TruncOf(v, c, A, d2) ==
  /\ v = 0 \/ Sgn(v) = Sgn(c)
  /\ IF d2 > A THEN v = 0
     ELSE /\ v * v * d2 * d2 * d2 <= c * c * A * A
          /\ c * c * A * A < (Abs(v) + 1) * (Abs(v) + 1) * d2 * d2 * d2

\* v is that real number exactly.
ExactOf(v, c, A, d2) == d2 <= A /\ v * v * d2 * d2 * d2 = c * c * A * A

\* What the claim says of gravity_vel(a_pos, a_mass, b_pos, b_mass, dt),
\* in the arithmetic of this model.
NewtonPair(a_pos, a_mass, b_pos, b_mass, dt) ==
  LET gv == gravity_vel(a_pos, a_mass, b_pos, b_mass, dt)
      dx == a_pos.x - b_pos.x
      dy == a_pos.y - b_pos.y
      d2 == dx * dx + dy * dy
      Aa == a_mass * G * dt
      Ab == b_mass * G * dt
  IN /\ ~gv[1].nan /\ ~gv[2].nan
     /\ TruncOf(gv[1].x, -dx, Ab, d2) /\ TruncOf(gv[1].y, -dy, Ab, d2)
     /\ TruncOf(gv[2].x, dx, Aa, d2) /\ TruncOf(gv[2].y, dy, Aa, d2)
     /\ Abs(Abs(gv[1].x) * a_mass - Abs(gv[2].x) * b_mass) < Max(a_mass, b_mass)
     /\ Abs(Abs(gv[1].y) * a_mass - Abs(gv[2].y) * b_mass) < Max(a_mass, b_mass)
     /\ (ExactOf(gv[1].x, dx, Ab, d2) /\ ExactOf(gv[2].x, dx, Aa, d2))
          => Abs(gv[1].x) * a_mass = Abs(gv[2].x) * b_mass
     /\ (ExactOf(gv[1].y, dy, Ab, d2) /\ ExactOf(gv[2].y, dy, Aa, d2))
          => Abs(gv[1].y) * a_mass = Abs(gv[2].y) * b_mass

\* C14: for every two bodies, and the ship and every body, at different
\* positions, gravity_vel gives a its pull towards b, G * mass_b / d^2 * dt
\* along the unit vector from a to b, and b its pull towards a,
\* G * mass_a / d^2 * dt; each component is that value truncated, and the
\* two deltas times the bodies' own masses agree (exactly where the values
\* are whole numbers, to within the truncation otherwise).
C14_NewtonianPair ==
  \A dt \in 1..MaxSolverDt :
    /\ \A i, j \in 1..Len(bodies) :
         ( /\ ~bodies[i].mov.pos.nan /\ ~bodies[j].mov.pos.nan
           /\ bodies[i].mov.pos # bodies[j].mov.pos )
         => NewtonPair(bodies[i].mov.pos, bodies[i].mov.mass,
                       bodies[j].mov.pos, bodies[j].mov.mass, dt)
    /\ \A k \in 1..Len(ships), j \in 1..Len(bodies) :
         ( /\ ~ships[k].mov.pos.nan /\ ~bodies[j].mov.pos.nan
           /\ ships[k].mov.pos # bodies[j].mov.pos )
         => NewtonPair(ships[k].mov.pos, ships[k].mov.mass,
                       bodies[j].mov.pos, bodies[j].mov.mass, dt)

\* The first solver call was apply_gravity_to_celestial_bodies and has given
\* the star, until then at rest, the pull of a planet of another mass.
C14_Witness ==
  /\ last.op = "apply_gravity_to_celestial_bodies"
  /\ ticks = 1
  /\ bodies[2].cb_type = "Planet"
  /\ bodies[3].cb_type = "Asteroid"
  /\ bodies[2].mov.mass # bodies[1].mov.mass
  /\ bodies[1].mov.pos # bodies[2].mov.pos
  /\ bodies[1].mov.vel # ZERO
  /\ \E dt \in 1..MaxSolverDt :
       bodies[1].mov.vel = gravity_vel(bodies[1].mov.pos, bodies[1].mov.mass,
                                       bodies[2].mov.pos, bodies[2].mov.mass, dt)[1]

\* The smallest k with k * dt > threshold, for dt > 0.
Period(threshold, dt) == threshold \div dt + 1

\* C15: after update(dt), is_just_over() is true exactly when the elapsed
\* time plus dt exceeded the threshold; that call leaves elapsed at 0 and
\* any other at elapsed + dt; and while every call has had the same step
\* dt with 0 < dt <= threshold, the flag is true after the n-th call
\* exactly when n is a multiple of the smallest k with k * dt > threshold.
C15_JustOverOncePerCrossing ==
  [][ tlog'.n = tlog.n + 1 =>
        /\ is_just_over(timer') <=> (timer.act + tlog'.dt > timer.threshold)
        /\ timer'.act = IF timer.act + tlog'.dt > timer.threshold
                        THEN 0 ELSE timer.act + tlog'.dt
        /\ timer'.threshold = timer.threshold
        /\ ~is_over(timer')
        /\ (tlog'.same /\ 0 < tlog'.dt /\ tlog'.dt <= timer.threshold) =>
             ( is_just_over(timer')
               <=> tlog'.n % Period(timer.threshold, tlog'.dt) = 0 ) ]_vars

\* With a constant step below the threshold the timer has just crossed for
\* the second time, more than one update after the first.
C15_Witness ==
  /\ tlog.same
  /\ 0 < tlog.dt
  /\ tlog.dt < timer.threshold
  /\ tlog.n = 2 * Period(timer.threshold, tlog.dt)
  /\ is_just_over(timer)
  /\ timer.act = 0

\* The bodies whose scoping circle holds the point p.
Dominating(bs, p) == { i \in 1..Len(bs) : pos_in_hill_radius(bs[i], p) }

SeqRange(q) == { q[i] : i \in 1..Len(q) }

\* C16: after the gravity phase of a live tick every ship's
\* in_hill_radius_of holds exactly the bodies whose scoping circle holds the
\* ship's position, whether the ship is InSpace, Landed or Destroyed.
C16_HillSetFreshAfterGravity ==
  [][ last'.op = "gravity" =>
        \A k \in 1..Len(ships) :
          SeqRange(ships'[k].in_hill_radius_of)
            = Dominating(bodies', ships'[k].mov.pos) ]_vars

\* C17: simulate_hill_radius returns with every ship's in_hill_radius_of
\* as it was before the call, whether the rollout ended by impact or ran
\* all its iterations.
C17_RolloutKeepsHillSet ==
  [][ IsSimulate =>
        \A k \in 1..Len(ships) :
          ships'[k].in_hill_radius_of = ships[k].in_hill_radius_of ]_vars

\* One iteration of the rollout up to the forward check: gravity among the
\* captured bodies cbs, gravity on the ship, update of cbs, update of the
\* ship. sb and the result are <<ship, bodies>>.
SimStep(sb, cbs, dt) ==
  LET g == apply_gravity(sb[1], apply_gravity_to_celestial_bodies(sb[2], cbs, dt),
                         cbs, dt)
  IN <<[g[1] EXCEPT !.mov = Movable_update(g[1].mov, dt)],
       UpdateEach(g[2], cbs, dt, FALSE, << >>)[1]>>

RECURSIVE SimSteps(_, _, _, _)
\* n such iterations in a row.
SimSteps(sb, cbs, dt, n) ==
  IF n = 0 THEN sb ELSE SimSteps(SimStep(sb, cbs, dt), cbs, dt, n - 1)

\* The forward check of the iteration that ends in sb: the body hit, or 0.
SimHit(sb, cbs) ==
  IF sb[1].state.tag = "InSpace" THEN FirstHit(sb[1], sb[2], cbs) ELSE 0

\* The rollout of ship s reaches the end of its n-th iteration.
SimReaches(s, bs, dt, n) ==
  \A j \in 1..(n - 1) :
    SimHit(SimSteps(<<s, bs>>, s.in_hill_radius_of, dt, j), s.in_hill_radius_of) = 0

\* Other values a body could have: another velocity, another mass, and
\* the position p.
Perturbed(b, p) ==
  { [b EXCEPT !.mov.vel = VAdd(b.mov.vel, vec2(1, 0))],
    [b EXCEPT !.mov.mass = b.mov.mass + 1],
    [b EXCEPT !.mov.pos = p] }

\* C18: in the rollout of a ship, whatever its flight state at the start,
\* a body outside the captured set keeps all its fields, and neither the
\* simulated ship (velocity included) nor the outcome of the forward check
\* of any iteration depends on such a body.
C18_RolloutTouchesCapturedOnly ==
  [][ IsSimulate =>
        \A k \in 1..Len(ships), i \in 1..Len(bodies) :
          i \notin SeqRange(ships[k].in_hill_radius_of) =>
            /\ bodies'[i] = bodies[i]
            /\ \A dt \in 1..MaxSimDt, n \in 1..MaxIter,
                  alt \in Perturbed(bodies[i], ships[k].mov.pos) :
                  SimReaches(ships[k], bodies, dt, n) =>
                    LET cbs == ships[k].in_hill_radius_of
                        a == SimSteps(<<ships[k], bodies>>, cbs, dt, n)
                        b == SimSteps(<<ships[k], [bodies EXCEPT ![i] = alt]>>,
                                      cbs, dt, n)
                    IN /\ b[1] = a[1]
                       /\ b[2][i] = alt
                       /\ SimHit(b, cbs) = SimHit(a, cbs) ]_vars

\* Iteration i of a rollout of so many iterations emits samples.
Sampled(i, iterations) == (i % 5 = 0) \/ (i = iterations - 1)

\* The iterations of i..j that emit samples.
SampledIn(i, j, iterations) == { x \in i..j : Sampled(x, iterations) }

\* The rollout of ship s over so many iterations meets its first impact at
\* the end of its n-th iteration.
FirstImpactAt(s, bs, iterations, dt, n) ==
  /\ n \in 1..iterations
  /\ SimReaches(s, bs, dt, n)
  /\ SimHit(SimSteps(<<s, bs>>, s.in_hill_radius_of, dt, n), s.in_hill_radius_of) # 0

\* C19: when the rollout of an InSpace ship meets an impact, the call ends
\* at the first iteration whose forward check fires: the trail holds the
\* samples of the iterations up to it and then one ORANGE sample at the
\* simulated ship's position, which is its last element; ships and bodies
\* are back at their checkpoints; and a rollout that meets no impact
\* appends no such sample. It is stated of every call the loop can make
\* after a tick.
C19_ImpactEndsRollout ==
  (pc = "ticked" /\ ships[1].state.tag = "InSpace") =>
    \A iterations \in 0..MaxIter, dt \in 1..MaxSimDt :
      LET r == simulate_hill_radius(ships, bodies, iterations, dt)
          cbs == ships[1].in_hill_radius_of
      IN /\ \A n \in 1..iterations :
              FirstImpactAt(ships[1], bodies, iterations, dt, n) =>
                /\ r.exits[1] = "impact"
                /\ Len(r.trail)
                     = Len(cbs) * Cardinality(SampledIn(0, n - 1, iterations))
                       + Cardinality(SampledIn(0, n - 2, iterations)) + 1
                /\ r.trail[Len(r.trail)]
                     = [pos |-> SimSteps(<<ships[1], bodies>>, cbs, dt, n)[1].mov.pos,
                        color |-> "ORANGE"]
                /\ LiveState(r.ships, r.bodies) = LiveState(ships, bodies)
         /\ (\A n \in 1..iterations :
                ~FirstImpactAt(ships[1], bodies, iterations, dt, n)) =>
              /\ r.exits[1] = "normal"
              /\ Len(r.trail)
                   = (Len(cbs) + 1)
                     * Cardinality(SampledIn(0, iterations - 1, iterations))

\* A rollout of an InSpace ship has ended by an impact met after its first
\* iteration: the trail holds a YELLOW sample and ends with the ORANGE one.
C19_Witness ==
  /\ last.op = "simulate_hill_radius"
  /\ last.was.tag = "InSpace"
  /\ last.exit = "impact"
  /\ \E j \in 1..Len(last.trail) : last.trail[j].color = "YELLOW"
  /\ last.trail[Len(last.trail)].color = "ORANGE"
  /\ last.trail[Len(last.trail)].pos # ships[1].mov.pos

\* The velocity one throttle_up of step dt gives a ship of that heading
\* and mass.
ThrustIncrement(rot, mass, dt) ==
  LET d == rotate_vec2_by_rad(vec2(1, 0), rot)
  IN vec2(TDiv(d.x * SHIP_ACCELERATION * dt, mass),
          TDiv(d.y * SHIP_ACCELERATION * dt, mass))

\* C20: throttle_up on a Landed ship with fuel left adds the thrust
\* increment to the takeoff velocity carried in the Landed state and
\* leaves the ship's velocity, position and rotation as they were; the
\* ship is still Landed on the same body.
C20_LandedThrustAccumulates ==
  [][ (last'.op = "throttle_up" /\ ships[1].state.tag = "Landed"
         /\ ships[1].fuel > 0) =>
        /\ ships'[1].state.tag = "Landed"
        /\ ships'[1].state.cb = ships[1].state.cb
        /\ Kinematics(ships'[1].mov) = Kinematics(ships[1].mov)
        /\ \E dt \in 1..MaxThrottleDt :
             ships'[1].state.tv
               = VAdd(ships[1].state.tv,
                      ThrustIncrement(ships[1].mov.rot, ships[1].mov.mass, dt)) ]_vars

\* A Landed ship with fuel has just been throttled up for the second time
\* since it landed: its takeoff velocity holds two increments.
C20_Witness ==
  /\ last.op = "throttle_up"
  /\ last.was.tag = "Landed"
  /\ last.fuel > 0
  /\ last.was.tv # ZERO
  /\ ships[1].state.tag = "Landed"
  /\ ships[1].state.tv # last.was.tv

\* The velocity delta of a body at p due to a body of mass q_mass at q.
DeltaOn(p, q, q_mass, dt) == gravity_vel(p, 1, q, q_mass, dt)[1]

RECURSIVE BodyPulls(_, _, _, _)
\* One delta on a point at p for every body of the set S.
BodyPulls(bs, p, S, dt) ==
  IF S = {} THEN ZERO
  ELSE LET b == CHOOSE x \in S : TRUE
       IN VAdd(DeltaOn(p, bs[b].mov.pos, bs[b].mov.mass, dt),
               BodyPulls(bs, p, S \ {b}, dt))

RECURSIVE ShipPulls(_, _, _, _)
\* One delta on a point at p for every ship of the set K.
ShipPulls(ss, p, K, dt) ==
  IF K = {} THEN ZERO
  ELSE LET k == CHOOSE x \in K : TRUE
       IN VAdd(DeltaOn(p, ss[k].mov.pos, ss[k].mov.mass, dt),
               ShipPulls(ss, p, K \ {k}, dt))

\* The bodies that pull body a in the passes over the bodies: every other
\* major body for a major one, the parent for an asteroid.
BodyPartners(bs, a) ==
  IF a \in SeqRange(major_celestial_bodies(bs))
  THEN SeqRange(major_celestial_bodies(bs)) \ {a}
  ELSE {cb_parent}

\* The ships that exchange a pull with body a: those not Landed whose
\* position the body's scoping circle holds.
ShipPartners(ss, bs, a) ==
  { k \in 1..Len(ss) : /\ ss[k].state.tag # "Landed"
                        /\ pos_in_hill_radius(bs[a], ss[k].mov.pos) }

\* C21: the gravity phase of a live tick changes every body's velocity by
\* exactly one delta for each of its partners (every other major body for
\* a major one, the parent for an asteroid) and one for each ship under
\* its influence, and every ship that is not Landed by exactly one delta
\* for each body that dominates its position: no pair is applied twice.
C21_EachPairOnce ==
  [][ last'.op = "gravity" =>
        /\ \A a \in 1..Len(bodies) :
             bodies'[a].mov.vel
               = VAdd(VAdd(bodies[a].mov.vel,
                           BodyPulls(bodies, bodies[a].mov.pos,
                                     BodyPartners(bodies, a), PHYSICS_STEP)),
                      ShipPulls(ships, bodies[a].mov.pos,
                                ShipPartners(ships, bodies, a), PHYSICS_STEP))
        /\ \A k \in 1..Len(ships) :
             ships[k].state.tag # "Landed" =>
               ships'[k].mov.vel
                 = VAdd(ships[k].mov.vel,
                        BodyPulls(bodies, ships[k].mov.pos,
                                  Dominating(bodies, ships[k].mov.pos),
                                  PHYSICS_STEP)) ]_vars

\* After a gravity phase over three major bodies, a ship in space is under
\* the influence of two bodies or more and a body's velocity has changed.
C21_Witness ==
  /\ last.op = "gravity"
  /\ Len(major_celestial_bodies(bodies)) = 3
  /\ \E k \in 1..Len(ships) :
       /\ ships[k].state.tag = "InSpace"
       /\ Len(ships[k].in_hill_radius_of) >= 2
  /\ ticks = 1
  /\ bodies[1].mov.vel # ZERO

\* The offset of ship s from its anchor.
AnchorOffset(s, bs) == VSub(s.mov.pos, bs[s.state.cb].mov.pos)

\* C22: in a live tick that starts with a ship Landed, at the integration
\* step the ship's velocity equals its anchor's velocity, and the offset
\* of the ship from the anchor is the same after the step as before it,
\* however many ships the tick processes.
C22_LandedShipCoMoves ==
  [][ last'.op = "update" =>
        \A k \in 1..Len(ships) :
          ships[k].state.tag = "Landed" =>
            /\ ships[k].mov.vel = bodies[ships[k].state.cb].mov.vel
            /\ AnchorOffset(ships'[k], bodies') = AnchorOffset(ships[k], bodies) ]_vars

\* The heading of rotation rot is the direction of the vector d.
Heads(rot, d) ==
  /\ ~d.nan
  /\ length_squared(d) # 0
  /\ VScale(rotate_vec2_by_rad(vec2(1, 0), rot), ISqrt(length_squared(d))) = d

HasParent(bs, i) == ~bs[i].hill_radius.inf

\* C24: a body built by from_parent has the hill radius of its own initial
\* position and mass around its parent's position and mass (before the
\* first tick no body has moved), and no step changes the hill radius or
\* the mass of a body.
C24_HillRadiusFromOwnOrbit ==
  /\ [](ticks = 0 =>
          \A i \in 1..Len(bodies) :
            HasParent(bodies, i) =>
              bodies[i].hill_radius
                = Finite(calculate_hill_radius(bodies[cb_parent].mov.pos,
                                               bodies[cb_parent].mov.mass,
                                               bodies[i].mov.pos,
                                               bodies[i].mov.mass)))
  /\ [][ \A i \in 1..Len(bodies) :
           /\ bodies'[i].hill_radius = bodies[i].hill_radius
           /\ bodies'[i].mov.mass = bodies[i].mov.mass ]_vars

\* C25: after save(), every load() that follows with no save() in between,
\* the first and the second alike, leaves the ship in the flight state it
\* held at save(): Landed on the same anchor with the same takeoff
\* velocity, Destroyed, or InSpace.
C25_LoadTwiceKeepsState ==
  [][ (slog'.op = "load" /\ slog.saves > 0) => ships'[1].state = slog.saved ]_vars

====
